---- MODULE Spec2Model ----
(***************************************************************************)
(* A model of the record types of sarpy's ImageFormation.py (SICD) and     *)
(* ProductDisplay.py (SIDD 1.0): the derivation hooks, the reference       *)
(* frequency shift and the validity checks of ImageFormationType and       *)
(* TxFrequencyProcType, and the XML look-up table parsing of               *)
(* ColorDisplayRemapType.                                                  *)
(*                                                                         *)
(* An optional value is a sequence of length at most one: None is <<>>,    *)
(* a present value v is <<v>>.  A float is modelled by an integer that a   *)
(* binary floating point format with MantBits bits of mantissa can hold;   *)
(* arithmetic rounds to nearest, ties to even, as Python's float does with *)
(* 53 bits.                                                                *)
(***************************************************************************)
EXTENDS Integers, Sequences, FiniteSets, TLC

VARIABLES
    self,       \* the ImageFormationType node: field name -> optional value
    calls,      \* the calls made on the node so far, each with its pre-state and outcome
    lut_node,   \* the RemapLUT element last handed to ColorDisplayRemapType.from_node
    remap,      \* the outcome of that from_node call
    luts,       \* the stored tables of a ColorDisplayRemapType and a MonochromeDisplayRemapType,
                \* the last assignment to one, the table last written to XML and read
                \* back, the element last handed to MonochromeDisplayRemapType.from_node
    tre,        \* a CSCCGAType: the bytes it is made from and what came of them
    product     \* a ProductDisplayType and the parameter collections

vars == <<self, calls, lut_node, remap, luts, tre, product>>

None == <<>>
Some(v) == <<v>>
Val(o) == o[1]

---------------------------------------------------------------------------
(* Bounds *)

\* the number of calls made on one node
MaxCalls == 2
\* the mantissa width of the modelled floating point format (53 in CPython)
MantBits == 3
\* the number of whitespace separated entries of a RemapLUT text
MaxEntries == 2
\* assignments to the lookup tables in a behaviour
MaxAssign == 2
\* entries of a parameter collection given at once, and insertions after
MaxParams == 2

---------------------------------------------------------------------------
(* Floating point *)

RECURSIVE Pow2(_)
Pow2(k) == IF k <= 0 THEN 1 ELSE 2 * Pow2(k - 1)

RECURSIVE BitLen(_)
BitLen(n) == IF n = 0 THEN 0 ELSE 1 + BitLen(n \div 2)

Abs(n) == IF n < 0 THEN -n ELSE n

\* the float nearest to the real n: round to nearest, ties to even
RoundFloat(n) ==
    LET a == Abs(n)
        e == BitLen(a) - MantBits
    IN  IF e <= 0 THEN n
        ELSE LET q == a \div Pow2(e)
                 r == a % Pow2(e)
                 half == Pow2(e - 1)
                 m == IF r > half \/ (r = half /\ q % 2 = 1) THEN q + 1 ELSE q
             IN  (IF n < 0 THEN -1 ELSE 1) * m * Pow2(e)

\* float.__add__: the exact sum, rounded
FloatAdd(x, y) == RoundFloat(x + y)

\* _FloatDescriptor.__set__: None stays None, a number becomes a float
FloatDescriptor(o) == IF o = None THEN None ELSE Some(RoundFloat(Val(o)))

---------------------------------------------------------------------------
(* TxFrequencyProcType *)

TxFrequencyProcType_fields == <<"MinProc", "MaxProc">>
TxFrequencyProcType_required == TxFrequencyProcType_fields

\* TxFrequencyProcType.__init__
TxFrequencyProcType(MinProc, MaxProc) ==
    [MinProc |-> FloatDescriptor(MinProc), MaxProc |-> FloatDescriptor(MaxProc)]

\* a mutant: the shift also fills an absent bound with the offset
TxFrequencyProcType_apply_reference_frequency_creates(tx, reference_frequency) ==
    [MinProc |-> IF tx.MinProc # None
                 THEN Some(FloatAdd(Val(tx.MinProc), reference_frequency))
                 ELSE Some(reference_frequency),
     MaxProc |-> IF tx.MaxProc # None
                 THEN Some(FloatAdd(Val(tx.MaxProc), reference_frequency))
                 ELSE None]

\* a mutant: the shift is applied to MinProc only
TxFrequencyProcType_apply_reference_frequency_min_only(tx, reference_frequency) ==
    [MinProc |-> IF tx.MinProc # None
                 THEN Some(FloatAdd(Val(tx.MinProc), reference_frequency))
                 ELSE None,
     MaxProc |-> tx.MaxProc]

\* TxFrequencyProcType._apply_reference_frequency
TxFrequencyProcType_apply_reference_frequency(tx, reference_frequency) ==
    [MinProc |-> IF tx.MinProc # None
                 THEN Some(FloatAdd(Val(tx.MinProc), reference_frequency))
                 ELSE None,
     MaxProc |-> IF tx.MaxProc # None
                 THEN Some(FloatAdd(Val(tx.MaxProc), reference_frequency))
                 ELSE None]

---------------------------------------------------------------------------
(* Serializable._basic_validity_check: one logged error per required field *)
(* that is absent; the result is whether all are present.                  *)

RECURSIVE MissingRequired(_, _)
MissingRequired(node, required) ==
    IF required = <<>> THEN <<>>
    ELSE (IF node[Head(required)] = None
          THEN << <<"missing", Head(required)>> >> ELSE <<>>)
         \o MissingRequired(node, Tail(required))

Serializable_basic_validity_check(node, required) ==
    LET log == MissingRequired(node, required)
    IN  [condition |-> log = <<>>, log |-> log]

\* the logged error of a violated lower <= upper predicate
CrossField(lo, hi) == <<"cross", lo, hi>>

\* a mutant: the comparison is not strict, equal bounds are reported too
TxFrequencyProcType_basic_validity_check_not_strict(tx) ==
    LET base == Serializable_basic_validity_check(tx, TxFrequencyProcType_required)
    IN  IF tx.MinProc # None /\ tx.MaxProc # None /\ Val(tx.MaxProc) <= Val(tx.MinProc)
        THEN [self |-> tx, ret |-> FALSE,
              log |-> Append(base.log, CrossField(Val(tx.MinProc), Val(tx.MaxProc)))]
        ELSE [self |-> tx, ret |-> base.condition, log |-> base.log]

\* TxFrequencyProcType._basic_validity_check
TxFrequencyProcType_basic_validity_check(tx) ==
    LET base == Serializable_basic_validity_check(tx, TxFrequencyProcType_required)
    IN  IF tx.MinProc # None /\ tx.MaxProc # None /\ Val(tx.MaxProc) < Val(tx.MinProc)
        THEN [self |-> tx, ret |-> FALSE,
              log |-> Append(base.log, CrossField(Val(tx.MinProc), Val(tx.MaxProc)))]
        ELSE [self |-> tx, ret |-> base.condition, log |-> base.log]

---------------------------------------------------------------------------
(* ImageFormationType *)

ImageFormationType_fields ==
    <<"RcvChanProc", "TxRcvPolarizationProc", "TStartProc", "TEndProc", "TxFrequencyProc",
      "SegmentIdentifier", "ImageFormAlgo", "STBeamComp", "ImageBeamComp", "AzAutofocus",
      "RgAutofocus", "Processings", "PolarizationCalibration">>

ImageFormationType_required ==
    <<"RcvChanProc", "TxRcvPolarizationProc", "TStartProc", "TEndProc", "TxFrequencyProc",
      "ImageFormAlgo", "STBeamComp", "ImageBeamComp", "AzAutofocus", "RgAutofocus">>

\* ImageFormationType.__init__ on its keyword arguments: a TxFrequencyProc
\* given as a list of two or more numbers becomes a TxFrequencyProcType of its
\* first two entries, one given as an instance is stored as it is
ImageFormationType(kw) ==
    [RcvChanProc |-> kw.RcvChanProc,
     TxRcvPolarizationProc |-> kw.TxRcvPolarizationProc,
     TStartProc |-> FloatDescriptor(kw.TStartProc),
     TEndProc |-> FloatDescriptor(kw.TEndProc),
     TxFrequencyProc |->
        IF kw.TxFrequencyProc # None /\ Val(kw.TxFrequencyProc).kind = "list"
           /\ Len(Val(kw.TxFrequencyProc).value) >= 2
        THEN Some(TxFrequencyProcType(Some(Val(kw.TxFrequencyProc).value[1]),
                                      Some(Val(kw.TxFrequencyProc).value[2])))
        ELSE IF kw.TxFrequencyProc # None
        THEN Some(Val(kw.TxFrequencyProc).value)
        ELSE None,
     SegmentIdentifier |-> kw.SegmentIdentifier,
     ImageFormAlgo |-> kw.ImageFormAlgo,
     STBeamComp |-> kw.STBeamComp,
     ImageBeamComp |-> kw.ImageBeamComp,
     AzAutofocus |-> kw.AzAutofocus,
     RgAutofocus |-> kw.RgAutofocus,
     Processings |-> kw.Processings,
     PolarizationCalibration |-> kw.PolarizationCalibration]

\* the guard of _derive_tx_frequency_proc: the sibling and both of its bounds are present
HasTxFrequency(RadarCollection) ==
    /\ RadarCollection # None
    /\ Val(RadarCollection).TxFrequency # None
    /\ Val(Val(RadarCollection).TxFrequency).Min # None
    /\ Val(Val(RadarCollection).TxFrequency).Max # None

\* a mutant: an absent target is constructed, a present one has its first
\* absent bound filled
ImageFormationType_derive_tx_frequency_proc_one_end(node, RadarCollection) ==
    IF HasTxFrequency(RadarCollection)
    THEN LET TxFrequency == Val(Val(RadarCollection).TxFrequency)
         IN  IF node.TxFrequencyProc = None
             THEN [self |-> [node EXCEPT !.TxFrequencyProc =
                                Some(TxFrequencyProcType(TxFrequency.Min, TxFrequency.Max))],
                   ret |-> "None", log |-> <<>>]
             ELSE IF Val(node.TxFrequencyProc).MinProc = None
             THEN [self |-> [node EXCEPT !.TxFrequencyProc =
                                Some([Val(node.TxFrequencyProc) EXCEPT
                                         !.MinProc = FloatDescriptor(TxFrequency.Min)])],
                   ret |-> "None", log |-> <<>>]
             ELSE IF Val(node.TxFrequencyProc).MaxProc = None
             THEN [self |-> [node EXCEPT !.TxFrequencyProc =
                                Some([Val(node.TxFrequencyProc) EXCEPT
                                         !.MaxProc = FloatDescriptor(TxFrequency.Max)])],
                   ret |-> "None", log |-> <<>>]
             ELSE [self |-> node, ret |-> "None", log |-> <<>>]
    ELSE [self |-> node, ret |-> "None", log |-> <<>>]

\* ImageFormationType._derive_tx_frequency_proc.  With a present target the
\* first branch replaces it; with an absent one the elif reads an attribute
\* of None, which raises AttributeError before anything is assigned.
ImageFormationType_derive_tx_frequency_proc(node, RadarCollection) ==
    IF HasTxFrequency(RadarCollection)
    THEN LET TxFrequency == Val(Val(RadarCollection).TxFrequency)
         IN  IF node.TxFrequencyProc # None
             THEN [self |-> [node EXCEPT !.TxFrequencyProc =
                                Some(TxFrequencyProcType(TxFrequency.Min, TxFrequency.Max))],
                   ret |-> "None", log |-> <<>>]
             ELSE IF node.TxFrequencyProc = None
             THEN [self |-> node, ret |-> "AttributeError", log |-> <<>>]
             ELSE IF Val(node.TxFrequencyProc).MinProc = None
             THEN [self |-> [node EXCEPT !.TxFrequencyProc =
                                Some([Val(node.TxFrequencyProc) EXCEPT
                                         !.MinProc = FloatDescriptor(TxFrequency.Min)])],
                   ret |-> "None", log |-> <<>>]
             ELSE IF Val(node.TxFrequencyProc).MaxProc = None
             THEN [self |-> [node EXCEPT !.TxFrequencyProc =
                                Some([Val(node.TxFrequencyProc) EXCEPT
                                         !.MaxProc = FloatDescriptor(TxFrequency.Max)])],
                   ret |-> "None", log |-> <<>>]
             ELSE [self |-> node, ret |-> "None", log |-> <<>>]
    ELSE [self |-> node, ret |-> "None", log |-> <<>>]

\* ImageFormationType._apply_reference_frequency
ImageFormationType_apply_reference_frequency(node, reference_frequency) ==
    IF node.TxFrequencyProc # None
    THEN [self |-> [node EXCEPT !.TxFrequencyProc =
                       Some(TxFrequencyProcType_apply_reference_frequency(
                                Val(node.TxFrequencyProc), reference_frequency))],
          ret |-> "None", log |-> <<>>]
    ELSE [self |-> node, ret |-> "None", log |-> <<>>]

\* a mutant: the bounds are compared only when no required field is missing
ImageFormationType_basic_validity_check_first_failure(node) ==
    LET base == Serializable_basic_validity_check(node, ImageFormationType_required)
    IN  IF base.condition /\ node.TStartProc # None /\ node.TEndProc # None
           /\ Val(node.TEndProc) < Val(node.TStartProc)
        THEN [self |-> node, ret |-> FALSE,
              log |-> Append(base.log, CrossField(Val(node.TStartProc), Val(node.TEndProc)))]
        ELSE [self |-> node, ret |-> base.condition, log |-> base.log]

\* a mutant: the check repairs the node, moving TEndProc up to TStartProc
ImageFormationType_basic_validity_check_repairs(node) ==
    LET base == Serializable_basic_validity_check(node, ImageFormationType_required)
    IN  IF node.TStartProc # None /\ node.TEndProc # None
           /\ Val(node.TEndProc) < Val(node.TStartProc)
        THEN [self |-> [node EXCEPT !.TEndProc = node.TStartProc], ret |-> FALSE,
              log |-> Append(base.log, CrossField(Val(node.TStartProc), Val(node.TEndProc)))]
        ELSE [self |-> node, ret |-> base.condition, log |-> base.log]

\* ImageFormationType._basic_validity_check
ImageFormationType_basic_validity_check(node) ==
    LET base == Serializable_basic_validity_check(node, ImageFormationType_required)
    IN  IF node.TStartProc # None /\ node.TEndProc # None
           /\ Val(node.TEndProc) < Val(node.TStartProc)
        THEN [self |-> node, ret |-> FALSE,
              log |-> Append(base.log, CrossField(Val(node.TStartProc), Val(node.TEndProc)))]
        ELSE [self |-> node, ret |-> base.condition, log |-> base.log]

---------------------------------------------------------------------------
(* ColorDisplayRemapType.  A text is a sequence of one-character strings; an *)
(* array is its dtype, its shape and its entries (for a two-dimensional      *)
(* array, the sequence of its rows).                                         *)

Digits == <<"0", "1", "2", "3", "4", "5", "6", "7", "8", "9">>
IsDigit(c) == \E d \in 1..Len(Digits) : Digits[d] = c
DigitValue(c) == (CHOOSE d \in 1..Len(Digits) : Digits[d] = c) - 1

\* int(text) for a text of digits and other characters: the decimal value of
\* a non-empty run of digits, ValueError for anything else
IsIntLiteral(text) == text # <<>> /\ \A k \in 1..Len(text) : IsDigit(text[k])

RECURSIVE IntValue(_)
IntValue(text) ==
    IF text = <<>> THEN 0
    ELSE 10 * IntValue(SubSeq(text, 1, Len(text) - 1)) + DigitValue(text[Len(text)])

\* str.split(): the maximal runs of characters other than whitespace
RECURSIVE SplitWhitespace(_, _)
SplitWhitespace(text, word) ==
    IF text = <<>> THEN (IF word = <<>> THEN <<>> ELSE <<word>>)
    ELSE IF Head(text) = " "
    THEN (IF word = <<>> THEN <<>> ELSE <<word>>) \o SplitWhitespace(Tail(text), <<>>)
    ELSE SplitWhitespace(Tail(text), Append(word, Head(text)))

\* str.split(','): the pieces between commas, empty ones included
RECURSIVE SplitComma(_, _)
SplitComma(text, piece) ==
    IF text = <<>> THEN <<piece>>
    ELSE IF Head(text) = ","
    THEN <<piece>> \o SplitComma(Tail(text), <<>>)
    ELSE SplitComma(Tail(text), Append(piece, Head(text)))

\* numpy.zeros((dim1, 3), dtype=uint16)
RECURSIVE ZeroRows(_)
ZeroRows(n) == IF n <= 0 THEN <<>> ELSE <<<<0, 0, 0>>>> \o ZeroRows(n - 1)

RECURSIVE SeqMax(_)
SeqMax(q) == IF Len(q) = 1 THEN q[1]
             ELSE LET m == SeqMax(Tail(q)) IN IF q[1] > m THEN q[1] ELSE m

RECURSIVE Flatten(_)
Flatten(rows) == IF rows = <<>> THEN <<>> ELSE Head(rows) \o Flatten(Tail(rows))

\* the RemapLUT setter of ColorDisplayRemapType, on the stored table and the
\* value assigned: None, a list or tuple (made a uint8 array of its shape) or
\* an array.  The shape test is `ndim != 2 and shape[1] != 3`: shape[1] is
\* read only when ndim is not 2, and is an IndexError below two dimensions.
ColorDisplayRemapType_RemapLUT_setter(stored, value) ==
    IF value = None THEN [ret |-> "None", RemapLUT |-> None]
    ELSE LET v == Val(value)
             arr == IF v.kind = "list"
                    THEN [kind |-> "ndarray", dtype |-> "uint8", shape |-> v.shape,
                          data |-> v.data]
                    ELSE v
         IN  IF arr.kind # "ndarray" \/ arr.dtype \notin {"uint8", "uint16"}
             THEN [ret |-> "ValueError", RemapLUT |-> stored]
             ELSE IF Len(arr.shape) # 2 /\ Len(arr.shape) < 2
             THEN [ret |-> "IndexError", RemapLUT |-> stored]
             ELSE IF Len(arr.shape) # 2 /\ arr.shape[2] # 3
             THEN [ret |-> "ValueError", RemapLUT |-> stored]
             ELSE [ret |-> "None", RemapLUT |-> Some(arr)]

\* ColorDisplayRemapType.__init__
ColorDisplayRemapType(RemapLUT) == ColorDisplayRemapType_RemapLUT_setter(None, RemapLUT)

\* the characters of an entry as integers, [int(el) for el in entry]: a
\* character that is no digit raises ValueError
EntryChars(entry) == [k \in 1..Len(entry) |-> DigitValue(entry[k])]

\* the loop of from_node over the entries: arr the rows so far, i the next
\* row, log the entries skipped
RECURSIVE ParseEntries(_, _, _, _)
ParseEntries(entries, arr, i, log) ==
    IF entries = <<>> THEN [ret |-> "None", arr |-> arr, log |-> log]
    ELSE LET entry == Head(entries)
             sentry == SplitComma(entry, <<>>)
         IN  IF Len(entry) = 0 THEN ParseEntries(Tail(entries), arr, i, log)
             ELSE IF Len(sentry) # 3
             THEN ParseEntries(Tail(entries), arr, i, Append(log, entry))
             ELSE IF \E k \in 1..Len(entry) : ~IsDigit(entry[k])
             THEN [ret |-> "ValueError", arr |-> arr, log |-> log]
             ELSE IF i >= Len(arr)
             THEN [ret |-> "IndexError", arr |-> arr, log |-> log]
             ELSE IF Len(entry) \notin {1, 3}
             THEN [ret |-> "ValueError", arr |-> arr, log |-> log]
             ELSE ParseEntries(Tail(entries),
                               [arr EXCEPT ![i + 1] =
                                   IF Len(entry) = 1
                                   THEN <<EntryChars(entry)[1], EntryChars(entry)[1],
                                          EntryChars(entry)[1]>>
                                   ELSE EntryChars(entry)],
                               i + 1, log)

\* ColorDisplayRemapType.from_node on the RemapLUT child of the node: None
\* when there is none, else its size attribute and its text
ColorDisplayRemapType_from_node(RemapLUT) ==
    IF RemapLUT = None
    THEN [ret |-> "None", RemapLUT |-> ColorDisplayRemapType(None).RemapLUT, log |-> <<>>]
    ELSE IF ~IsIntLiteral(Val(RemapLUT).size)
    THEN [ret |-> "ValueError", RemapLUT |-> None, log |-> <<>>]
    ELSE LET dim1 == IntValue(Val(RemapLUT).size)
             entries == SplitWhitespace(Val(RemapLUT).text, <<>>)
             parsed == ParseEntries(entries, ZeroRows(dim1), 0, <<>>)
         IN  IF parsed.ret # "None"
             THEN [ret |-> parsed.ret, RemapLUT |-> None, log |-> parsed.log]
             ELSE IF dim1 = 0   \* numpy.max of an array without entries
             THEN [ret |-> "ValueError", RemapLUT |-> None, log |-> parsed.log]
             ELSE LET made == ColorDisplayRemapType(Some(
                                  [kind |-> "ndarray",
                                   dtype |-> IF SeqMax(Flatten(parsed.arr)) < 256
                                             THEN "uint8" ELSE "uint16",
                                   shape |-> <<dim1, 3>>,
                                   data |-> parsed.arr]))
                  IN  [ret |-> made.ret, RemapLUT |-> made.RemapLUT, log |-> parsed.log]

---------------------------------------------------------------------------
(* MonochromeDisplayRemapType *)

\* numpy.zeros((dim1, ), dtype=uint8)
RECURSIVE Zeros(_)
Zeros(n) == IF n <= 0 THEN <<>> ELSE <<0>> \o Zeros(n - 1)

\* the RemapLUT setter of MonochromeDisplayRemapType
MonochromeDisplayRemapType_RemapLUT_setter(stored, value) ==
    IF value = None THEN [ret |-> "None", RemapLUT |-> None]
    ELSE LET v == Val(value)
             arr == IF v.kind = "list"
                    THEN [kind |-> "ndarray", dtype |-> "uint8", shape |-> v.shape,
                          data |-> v.data]
                    ELSE v
         IN  IF arr.kind # "ndarray" \/ arr.dtype # "uint8"
             THEN [ret |-> "ValueError", RemapLUT |-> stored]
             ELSE IF Len(arr.shape) # 1
             THEN [ret |-> "ValueError", RemapLUT |-> stored]
             ELSE [ret |-> "None", RemapLUT |-> Some(arr)]

\* the loop of MonochromeDisplayRemapType.from_node over the entries:
\* arr[i] = int(entry) raises ValueError for an entry that is no number and
\* IndexError for an entry past the announced size
RECURSIVE ParseMonoEntries(_, _, _)
ParseMonoEntries(entries, arr, i) ==
    IF entries = <<>> THEN [ret |-> "None", arr |-> arr]
    ELSE LET entry == Head(entries)
         IN  IF Len(entry) = 0 THEN ParseMonoEntries(Tail(entries), arr, i)
             ELSE IF ~IsIntLiteral(entry)
             THEN [ret |-> "ValueError", arr |-> arr]
             ELSE IF i >= Len(arr)
             THEN [ret |-> "IndexError", arr |-> arr]
             ELSE ParseMonoEntries(Tail(entries),
                                   [arr EXCEPT ![i + 1] = IntValue(entry)], i + 1)

\* MonochromeDisplayRemapType.from_node on the RemapLUT child of the node.
\* The table goes to the inherited from_node as the RemapLUT argument of the
\* constructor; nothing is logged.
MonochromeDisplayRemapType_from_node(RemapLUT) ==
    IF RemapLUT = None
    THEN [ret |-> "None", RemapLUT |-> None, log |-> <<>>]
    ELSE IF ~IsIntLiteral(Val(RemapLUT).size)
    THEN [ret |-> "ValueError", RemapLUT |-> None, log |-> <<>>]
    ELSE LET dim1 == IntValue(Val(RemapLUT).size)
             entries == SplitWhitespace(Val(RemapLUT).text, <<>>)
             parsed == ParseMonoEntries(entries, Zeros(dim1), 0)
         IN  IF parsed.ret # "None"
             THEN [ret |-> parsed.ret, RemapLUT |-> None, log |-> <<>>]
             ELSE LET made == MonochromeDisplayRemapType_RemapLUT_setter(None, Some(
                                  [kind |-> "ndarray", dtype |-> "uint8",
                                   shape |-> <<dim1>>, data |-> parsed.arr]))
                  IN  [ret |-> made.ret, RemapLUT |-> made.RemapLUT, log |-> <<>>]

\* str(n) and '{0:d}'.format(n) of an integer that is not negative
RECURSIVE IntToText(_)
IntToText(n) == IF n < 10 THEN <<Digits[n + 1]>>
                ELSE Append(IntToText(n \div 10), Digits[(n % 10) + 1])

\* ' '.join of the formatted rows
RECURSIVE JoinRows(_)
JoinRows(rows) ==
    IF rows = <<>> THEN <<>>
    ELSE IF Len(rows) = 1 THEN Head(rows)
    ELSE Head(rows) \o <<" ">> \o JoinRows(Tail(rows))

\* '{0:d},{1:d},{2:d}'.format(*entry) of a row of integers
FormatRow(entry) ==
    IntToText(entry[1]) \o <<",">> \o IntToText(entry[2]) \o <<",">> \o IntToText(entry[3])

\* ColorDisplayRemapType.to_node on the stored table: the RemapLUT child
\* written, None when no table is stored.  A row shorter than three is an
\* IndexError of format, a row of arrays a TypeError.
ColorDisplayRemapType_to_node(stored) ==
    IF stored = None THEN [ret |-> "None", RemapLUT |-> None]
    ELSE LET arr == Val(stored)
         IN  IF Len(arr.shape) # 2 /\ arr.shape[1] > 0
             THEN [ret |-> "TypeError", RemapLUT |-> None]
             ELSE IF arr.shape[2] < 3 /\ arr.shape[1] > 0
             THEN [ret |-> "IndexError", RemapLUT |-> None]
             ELSE [ret |-> "None",
                   RemapLUT |-> Some([size |-> IntToText(arr.shape[1]),
                                      text |-> JoinRows([k \in 1..Len(arr.data) |->
                                                            FormatRow(arr.data[k])])])]

\* nothing assigned, written or parsed yet
LutsIdle ==
    [color |-> None, mono |-> None, assigned |-> None, written |-> None, n |-> 0,
     mono_node |-> None, mono_remap |-> MonochromeDisplayRemapType_from_node(None)]

\* no record constructed, written or read
TreIdle == [node |-> None, bytes |-> None, value |-> None, back |-> None]
\* no node constructed, nothing inserted, written or read
ProductIdle == [node |-> None, last |-> None, element |-> None, from |-> None,
                back |-> None, n |-> 0]

---------------------------------------------------------------------------
(* The inputs *)

\* frequencies and times a node is constructed with, offsets it is shifted by
Freqs == {8, 16}
Times == {3, 5}
Offsets == {-1, 1, 2}
SiblingMin == {2}
SiblingMax == {10}

Opt(S) == {None} \cup {Some(v) : v \in S}

\* the RadarCollection siblings: absent, without TxFrequency, or with a
\* TxFrequency whose Min and Max are each absent or present
RadarCollections ==
    {None, Some([TxFrequency |-> None])}
    \cup {Some([TxFrequency |-> Some([Min |-> mn, Max |-> mx])]) :
              mn \in Opt(SiblingMin), mx \in Opt(SiblingMax)}

\* the TxFrequencyProc arguments of the constructor
TxFrequencyProcArgs ==
    {None}
    \cup {Some([kind |-> "instance", value |-> TxFrequencyProcType(mn, mx)]) :
              mn \in Opt(Freqs), mx \in Opt(Freqs)}
    \cup {Some([kind |-> "list", value |-> <<mn, mx>>]) : mn \in Freqs, mx \in Freqs}

\* the fields no operation of the model reads by value: all absent, all
\* present, or all present but the required RcvChanProc
OtherFieldsAbsent ==
    [RcvChanProc |-> None, TxRcvPolarizationProc |-> None, SegmentIdentifier |-> None,
     ImageFormAlgo |-> None, STBeamComp |-> None, ImageBeamComp |-> None,
     AzAutofocus |-> None, RgAutofocus |-> None, Processings |-> None,
     PolarizationCalibration |-> None]

OtherFieldsPresent ==
    [RcvChanProc |-> Some([NumChanProc |-> Some(1), PRFScaleFactor |-> None,
                           ChanIndices |-> Some(<<1>>)]),
     TxRcvPolarizationProc |-> Some("V:V"), SegmentIdentifier |-> Some("seg"),
     ImageFormAlgo |-> Some("PFA"), STBeamComp |-> Some("NO"), ImageBeamComp |-> Some("SV"),
     AzAutofocus |-> Some("GLOBAL"), RgAutofocus |-> Some("NO"),
     Processings |-> Some(<<[Type |-> Some("t"), Applied |-> Some(TRUE),
                             Parameters |-> None]>>),
     PolarizationCalibration |-> Some([DistortCorrectApplied |-> Some(TRUE),
                                      Distortion |-> None])]

OtherFields ==
    {OtherFieldsAbsent, OtherFieldsPresent, [OtherFieldsPresent EXCEPT !.RcvChanProc = None]}

Merge(f, g) == [k \in DOMAIN f \cup DOMAIN g |-> IF k \in DOMAIN f THEN f[k] ELSE g[k]]

ImageFormationArgs ==
    {Merge([TStartProc |-> ts, TEndProc |-> te, TxFrequencyProc |-> tx], o) :
        ts \in Opt(Times), te \in Opt(Times), tx \in TxFrequencyProcArgs, o \in OtherFields}

---------------------------------------------------------------------------
(* The ImageFormationType node and the calls made on it *)

Call(op, arg, pre, out) ==
    [op |-> op, arg |-> arg, pre |-> pre, ret |-> out.ret, log |-> out.log]

Init ==
    /\ \E kw \in ImageFormationArgs : self = ImageFormationType(kw)
    /\ calls = <<>>
    /\ lut_node = None
    /\ remap = ColorDisplayRemapType_from_node(None)
    /\ luts = LutsIdle
    /\ tre = TreIdle
    /\ product = ProductIdle

DeriveTxFrequencyProc ==
    /\ Len(calls) < MaxCalls
    /\ \E RadarCollection \in RadarCollections :
          LET out == ImageFormationType_derive_tx_frequency_proc(self, RadarCollection)
          IN  /\ self' = out.self
              /\ calls' = Append(calls, Call("derive", RadarCollection, self, out))
    /\ UNCHANGED <<lut_node, remap, luts, tre, product>>

ApplyReferenceFrequency ==
    /\ Len(calls) < MaxCalls
    /\ \E reference_frequency \in Offsets :
          LET out == ImageFormationType_apply_reference_frequency(self, reference_frequency)
          IN  /\ self' = out.self
              /\ calls' = Append(calls, Call("shift", reference_frequency, self, out))
    /\ UNCHANGED <<lut_node, remap, luts, tre, product>>

BasicValidityCheck ==
    /\ Len(calls) < MaxCalls
    /\ LET out == ImageFormationType_basic_validity_check(self)
       IN  /\ self' = out.self
           /\ calls' = Append(calls, Call("valid", None, self, out))
    /\ UNCHANGED <<lut_node, remap, luts, tre, product>>

TxFrequencyProcBasicValidityCheck ==
    /\ Len(calls) < MaxCalls
    /\ self.TxFrequencyProc # None
    /\ LET out == TxFrequencyProcType_basic_validity_check(Val(self.TxFrequencyProc))
       IN  /\ self' = [self EXCEPT !.TxFrequencyProc = Some(out.self)]
           /\ calls' = Append(calls, Call("txvalid", None, self, out))
    /\ UNCHANGED <<lut_node, remap, luts, tre, product>>

Next ==
    \/ DeriveTxFrequencyProc
    \/ ApplyReferenceFrequency
    \/ BasicValidityCheck
    \/ TxFrequencyProcBasicValidityCheck

Spec == Init /\ [][Next]_vars

---------------------------------------------------------------------------
(* The RemapLUT elements handed to ColorDisplayRemapType.from_node *)

\* the entries of a RemapLUT text: rows of three numbers, rows with another
\* number of tokens, a row with a token that is no number, a row of commas
Rows ==
    { <<"1", ",", "2", ",", "3">>,
      <<"4", ",", "5">>,
      <<"7">>,
      <<"1", ",", "2", ",", "3", ",", "4">>,
      <<"0", ",", "0", ",", "0">>,
      <<"1", "2", ",", "3", ",", "4">>,
      <<"1", ",", "x", ",", "3">>,
      <<",", ",">> }

Sizes == { <<"0">>, <<"1">>, <<"2">>, <<"3">> }

RECURSIVE SeqsUpTo(_, _)
SeqsUpTo(S, n) ==
    IF n = 0 THEN {<<>>}
    ELSE LET shorter == SeqsUpTo(S, n - 1)
         IN  shorter \cup {Append(q, x) : q \in {r \in shorter : Len(r) = n - 1}, x \in S}

\* ' '.join(entries)
RECURSIVE JoinSpace(_)
JoinSpace(entries) ==
    IF entries = <<>> THEN <<>>
    ELSE IF Len(entries) = 1 THEN entries[1]
    ELSE entries[1] \o <<" ">> \o JoinSpace(Tail(entries))

Texts == {JoinSpace(entries) : entries \in SeqsUpTo(Rows, MaxEntries) \ {<<>>}}

LutNodes == {None} \cup {Some([size |-> size, text |-> text]) : size \in Sizes, text \in Texts}

\* from_node is a class method: a call parses its element into a new node.
\* A behaviour is one call, on any of the elements.
ColorFromNode ==
    /\ lut_node = None
    /\ luts = LutsIdle
    /\ \E node \in LutNodes :
          /\ lut_node' = node
          /\ remap' = ColorDisplayRemapType_from_node(node)
    /\ UNCHANGED <<self, calls, luts, tre, product>>

\* no RemapLUT element parsed yet, and an ImageFormationType of no arguments
InitLUT ==
    /\ self = ImageFormationType(Merge([TStartProc |-> None, TEndProc |-> None,
                                        TxFrequencyProc |-> None], OtherFieldsAbsent))
    /\ calls = <<>>
    /\ lut_node = None
    /\ remap = ColorDisplayRemapType_from_node(None)
    /\ luts = LutsIdle
    /\ tre = TreIdle
    /\ product = ProductIdle

\* MonochromeDisplayRemapType.from_node on any of the elements
MonoFromNode ==
    /\ lut_node = None
    /\ luts = LutsIdle
    /\ \E node \in LutNodes \ {None} :
          luts' = [luts EXCEPT !.mono_node = node,
                               !.mono_remap = MonochromeDisplayRemapType_from_node(node)]
    /\ UNCHANGED <<self, calls, lut_node, remap, tre, product>>

\* the values assigned to a RemapLUT: None, lists, arrays of one, two and
\* three dimensions, of three columns or not, of a good element type or not,
\* and a value that is neither
LutValues ==
    { None,
      Some([kind |-> "list", shape |-> <<2, 3>>, data |-> <<<<1, 2, 3>>, <<0, 0, 0>>>>]),
      Some([kind |-> "list", shape |-> <<2>>, data |-> <<7, 12>>]),
      Some([kind |-> "ndarray", dtype |-> "uint8", shape |-> <<1, 3>>,
            data |-> <<<<4, 5, 6>>>>]),
      Some([kind |-> "ndarray", dtype |-> "uint16", shape |-> <<1, 3>>,
            data |-> <<<<256, 0, 12>>>>]),
      Some([kind |-> "ndarray", dtype |-> "uint8", shape |-> <<0, 3>>, data |-> <<>>]),
      Some([kind |-> "ndarray", dtype |-> "uint8", shape |-> <<1, 2>>,
            data |-> <<<<4, 5>>>>]),
      Some([kind |-> "ndarray", dtype |-> "uint8", shape |-> <<1, 4>>,
            data |-> <<<<4, 5, 6, 7>>>>]),
      Some([kind |-> "ndarray", dtype |-> "uint8", shape |-> <<3>>, data |-> <<1, 2, 3>>]),
      Some([kind |-> "ndarray", dtype |-> "uint16", shape |-> <<3>>, data |-> <<1, 2, 3>>]),
      Some([kind |-> "ndarray", dtype |-> "float64", shape |-> <<1, 3>>,
            data |-> <<<<4, 5, 6>>>>]),
      Some([kind |-> "ndarray", dtype |-> "uint8", shape |-> <<1, 3, 1>>,
            data |-> <<<<<<4>>, <<5>>, <<6>>>>>>]),
      Some([kind |-> "ndarray", dtype |-> "uint8", shape |-> <<1, 2, 1>>,
            data |-> <<<<<<4>>, <<5>>>>>>]),
      Some([kind |-> "str", dtype |-> "", shape |-> <<>>, data |-> <<>>]) }

\* an assignment to the RemapLUT of a ColorDisplayRemapType
SetColorLUT ==
    /\ lut_node = None /\ luts.mono_node = None /\ luts.written = None
    /\ luts.n < MaxAssign
    /\ \E value \in LutValues :
          LET out == ColorDisplayRemapType_RemapLUT_setter(luts.color, value)
          IN  luts' = [luts EXCEPT !.color = out.RemapLUT,
                                   !.n = @ + 1,
                                   !.assigned = Some([cls |-> "Color", value |-> value,
                                                      pre |-> luts.color,
                                                      ret |-> out.ret])]
    /\ UNCHANGED <<self, calls, lut_node, remap, tre, product>>

\* an assignment to the RemapLUT of a MonochromeDisplayRemapType
SetMonoLUT ==
    /\ lut_node = None /\ luts.mono_node = None /\ luts.written = None
    /\ luts.n < MaxAssign
    /\ \E value \in LutValues :
          LET out == MonochromeDisplayRemapType_RemapLUT_setter(luts.mono, value)
          IN  luts' = [luts EXCEPT !.mono = out.RemapLUT,
                                   !.n = @ + 1,
                                   !.assigned = Some([cls |-> "Mono", value |-> value,
                                                      pre |-> luts.mono,
                                                      ret |-> out.ret])]
    /\ UNCHANGED <<self, calls, lut_node, remap, tre, product>>

\* to_node of the ColorDisplayRemapType, and from_node on what it wrote
ColorRoundTrip ==
    /\ lut_node = None /\ luts.mono_node = None /\ luts.written = None
    /\ LET wrote == ColorDisplayRemapType_to_node(luts.color)
           back == IF wrote.ret = "None"
                   THEN ColorDisplayRemapType_from_node(wrote.RemapLUT)
                   ELSE [ret |-> wrote.ret, RemapLUT |-> None, log |-> <<>>]
       IN  luts' = [luts EXCEPT !.written = Some([original |-> luts.color,
                                                  RemapLUT |-> wrote.RemapLUT,
                                                  back |-> back])]
    /\ UNCHANGED <<self, calls, lut_node, remap, tre, product>>

NextLUT ==
    \/ ColorFromNode
    \/ MonoFromNode
    \/ SetColorLUT
    \/ SetMonoLUT
    \/ ColorRoundTrip

SpecLUT == InitLUT /\ [][NextLUT]_vars

---------------------------------------------------------------------------
(* The record schemas: the class attributes _fields, _required,
   _collections_tags (key and child tag) and _numeric_format of each record
   type, and the descriptors declared on it with their kinds *)

\* the names of a tuple of names
Names(q) == {q[k] : k \in 1..Len(q)}

\* a table of the keys, each with the same entry
AllOf(keys, entry) == [k \in keys |-> entry]

NoTable == AllOf({}, "")

RcvChanProcType_schema ==
    [fields |-> <<"NumChanProc", "PRFScaleFactor", "ChanIndices">>,
     required |-> <<"NumChanProc", "ChanIndices">>,
     collections |-> ("ChanIndices" :> "ChanIndex"),
     numeric_format |-> ("PRFScaleFactor" :> "0.16G"),
     descriptors |-> ("NumChanProc" :> "int" @@ "PRFScaleFactor" :> "float"
                      @@ "ChanIndices" :> "intlist")]

TxFrequencyProcType_schema ==
    [fields |-> TxFrequencyProcType_fields,
     required |-> TxFrequencyProcType_required,
     collections |-> NoTable,
     numeric_format |-> ("MinProc" :> "0.16G" @@ "MaxProc" :> "0.16G"),
     descriptors |-> ("MinProc" :> "float" @@ "MaxProc" :> "float")]

ProcessingType_schema ==
    [fields |-> <<"Type", "Applied", "Parameters">>,
     required |-> <<"Type", "Applied">>,
     collections |-> ("Parameters" :> "Parameter"),
     numeric_format |-> NoTable,
     descriptors |-> ("Type" :> "string" @@ "Applied" :> "bool" @@ "Parameters" :> "params")]

DistortionType_fields ==
    <<"CalibrationDate", "A", "F1", "F2", "Q1", "Q2", "Q3", "Q4", "GainErrorA",
      "GainErrorF1", "GainErrorF2", "PhaseErrorF1", "PhaseErrorF2">>

DistortionType_schema ==
    [fields |-> DistortionType_fields,
     required |-> <<"A", "F1", "Q1", "Q2", "F2", "Q3", "Q4">>,
     collections |-> NoTable,
     numeric_format |-> AllOf(Names(Tail(DistortionType_fields)), "0.16G"),
     descriptors |-> ("CalibrationDate" :> "datetime"
                      @@ AllOf({"A", "GainErrorA", "GainErrorF1", "GainErrorF2",
                                "PhaseErrorF1", "PhaseErrorF2"}, "float")
                      @@ AllOf({"F1", "Q1", "Q2", "F2", "Q3", "Q4"}, "complex"))]

PolarizationCalibrationType_schema ==
    [fields |-> <<"DistortCorrectApplied", "Distortion">>,
     required |-> <<"DistortCorrectApplied", "Distortion">>,
     collections |-> NoTable,
     numeric_format |-> NoTable,
     descriptors |-> ("DistortCorrectApplied" :> "bool" @@ "Distortion" :> "serializable")]

ImageFormationType_schema ==
    [fields |-> ImageFormationType_fields,
     required |-> ImageFormationType_required,
     collections |-> ("Processings" :> "Processing"),
     numeric_format |-> ("TStartProc" :> "0.16G" @@ "EndProc" :> "0.16G"),
     descriptors |-> (AllOf({"RcvChanProc", "TxFrequencyProc", "PolarizationCalibration"},
                            "serializable")
                      @@ AllOf({"TxRcvPolarizationProc", "ImageFormAlgo", "STBeamComp",
                                "ImageBeamComp", "AzAutofocus", "RgAutofocus"}, "enum")
                      @@ AllOf({"TStartProc", "TEndProc"}, "float")
                      @@ "SegmentIdentifier" :> "string"
                      @@ "Processings" :> "serializablelist")]

MonochromeDisplayRemapType_schema ==
    [fields |-> <<"RemapType", "RemapParameters">>,
     required |-> <<"RemapType">>,
     collections |-> ("RemapParameters" :> "RemapParameter"),
     numeric_format |-> NoTable,
     descriptors |-> ("RemapType" :> "string" @@ "RemapParameters" :> "params")]

RemapChoiceType_schema ==
    [fields |-> <<"ColorDisplayRemap", "MonochromeDisplayRemap">>,
     required |-> <<>>,
     collections |-> NoTable,
     numeric_format |-> NoTable,
     descriptors |-> AllOf({"ColorDisplayRemap", "MonochromeDisplayRemap"}, "serializable")]

MonitorCompensationAppliedType_schema ==
    [fields |-> <<"Gamma", "XMin">>,
     required |-> <<"Gamma", "XMin">>,
     collections |-> NoTable,
     numeric_format |-> AllOf(Names(<<"Gamma", "XMin">>), "0.16G"),
     descriptors |-> AllOf({"Gamma", "XMin"}, "float")]

DRAHistogramOverridesType_schema ==
    [fields |-> <<"ClipMin", "ClipMax">>,
     required |-> <<"ClipMin", "ClipMax">>,
     collections |-> NoTable,
     numeric_format |-> NoTable,
     descriptors |-> AllOf({"ClipMin", "ClipMax"}, "int")]

ProductDisplayType_schema ==
    [fields |-> <<"PixelType", "RemapInformation", "MagnificationMethod", "DecimationMethod",
                  "DRAHistogramOverrides", "MonitorCompensationApplied", "DisplayExtension">>,
     required |-> <<"PixelType">>,
     collections |-> ("DisplayExtensions" :> "DisplayExtension"),
     numeric_format |-> NoTable,
     descriptors |-> (AllOf({"PixelType", "MagnificationMethod", "DecimationMethod"}, "enum")
                      @@ AllOf({"RemapInformation", "DRAHistogramOverrides",
                                "MonitorCompensationApplied"}, "serializable")
                      @@ "DisplayExtensions" :> "params")]

\* the record types of ImageFormation.py and of ProductDisplay.py that
\* declare a field table
Schemas ==
    "RcvChanProcType" :> RcvChanProcType_schema
    @@ "TxFrequencyProcType" :> TxFrequencyProcType_schema
    @@ "ProcessingType" :> ProcessingType_schema
    @@ "DistortionType" :> DistortionType_schema
    @@ "PolarizationCalibrationType" :> PolarizationCalibrationType_schema
    @@ "ImageFormationType" :> ImageFormationType_schema
    @@ "MonochromeDisplayRemapType" :> MonochromeDisplayRemapType_schema
    @@ "RemapChoiceType" :> RemapChoiceType_schema
    @@ "MonitorCompensationAppliedType" :> MonitorCompensationAppliedType_schema
    @@ "DRAHistogramOverridesType" :> DRAHistogramOverridesType_schema
    @@ "ProductDisplayType" :> ProductDisplayType_schema

---------------------------------------------------------------------------
(* The XML codec of Serializable and the parameter collection, which the
   record types inherit: modelled from the specification (4.2, 4.3), driven by
   the tables above.  A node is [cls, values], values the attribute of each
   descriptor; an element is the sequence of its children
   [tag, name, text, format]. *)

\* the keys of a parameter collection, in insertion order
Keys(params) == [k \in 1..Len(params) |-> params[k][1]]

\* an insertion into a parameter collection: a key that is there is refused
ParametersCollection_setitem(params, key, value) ==
    IF key \in Names(Keys(params))
    THEN [ret |-> "DuplicateKey", params |-> params]
    ELSE [ret |-> "None", params |-> Append(params, <<key, value>>)]

\* the format an attribute of a schema is written with
FormatOf(schema, field) ==
    IF field \in DOMAIN schema.numeric_format THEN schema.numeric_format[field]
    ELSE "default"

\* format_for_output of a float that is a whole number, not negative: '3'
\* with the format 0.16G, '3.0' by default
FloatText(v, format) ==
    IF format = "0.16G" THEN IntToText(v) ELSE IntToText(v) \o <<".", "0">>

\* the float of such a text
RECURSIVE WholePart(_)
WholePart(text) ==
    IF text = <<>> \/ Head(text) = "." THEN <<>> ELSE <<Head(text)>> \o WholePart(Tail(text))

ParseFloat(text) == IntValue(WholePart(text))

\* the children written for a parameter collection: one per key, in order
ParameterChildren(child_tag, params) ==
    [k \in 1..Len(params) |->
        [tag |-> child_tag, name |-> Some(params[k][1]), text |-> params[k][2],
         format |-> ""]]

\* the children written for the field of a node: none when the node has no
\* such attribute or no value in it
FieldChildren(node, field) ==
    LET schema == Schemas[node.cls]
        value == IF field \in DOMAIN node.values THEN node.values[field] ELSE None
    IN  IF value = None THEN <<>>
        ELSE IF field \in DOMAIN schema.collections
        THEN ParameterChildren(schema.collections[field], Val(value))
        ELSE IF schema.descriptors[field] = "float"
        THEN << [tag |-> field, name |-> None,
                 text |-> FloatText(Val(value), FormatOf(schema, field)),
                 format |-> FormatOf(schema, field)] >>
        ELSE << [tag |-> field, name |-> None, text |-> Val(value), format |-> ""] >>

\* Serializable.to_node: the children of the fields, in the order of _fields
RECURSIVE WriteFields(_, _)
WriteFields(node, fields) ==
    IF fields = <<>> THEN <<>>
    ELSE FieldChildren(node, Head(fields)) \o WriteFields(node, Tail(fields))

Serializable_to_node(node) == WriteFields(node, Schemas[node.cls].fields)

\* the children of an element of a tag, in document order
ChildrenOf(element, tag) == SelectSeq(element, LAMBDA child : child.tag = tag)

\* the parameter collection of the children: a name met twice is refused
RECURSIVE CollectParameters(_, _)
CollectParameters(children, params) ==
    IF children = <<>> THEN [ret |-> "None", params |-> params]
    ELSE LET put == ParametersCollection_setitem(params, Val(Head(children).name),
                                                 Head(children).text)
         IN  IF put.ret # "None" THEN put
             ELSE CollectParameters(Tail(children), put.params)

\* the field of a node read from an element, acc the result so far: the
\* children of a collection field are those of its child tag, the child of
\* another field is the first of its name; a field without a descriptor stores
\* nothing; a missing child leaves the attribute absent
ReadField(schema, element, field, acc) ==
    IF acc.ret # "None" THEN acc
    ELSE IF field \in DOMAIN schema.collections
    THEN LET children == ChildrenOf(element, schema.collections[field])
             got == CollectParameters(children, <<>>)
         IN  IF children = <<>> \/ field \notin DOMAIN schema.descriptors THEN acc
             ELSE IF got.ret # "None" THEN [acc EXCEPT !.ret = got.ret]
             ELSE [acc EXCEPT !.values[field] = Some(got.params)]
    ELSE LET children == ChildrenOf(element, field)
         IN  IF children = <<>> \/ field \notin DOMAIN schema.descriptors THEN acc
             ELSE IF schema.descriptors[field] = "float"
             THEN [acc EXCEPT !.values[field] = Some(ParseFloat(Head(children).text))]
             ELSE [acc EXCEPT !.values[field] = Some(Head(children).text)]

RECURSIVE ReadFields(_, _, _, _)
ReadFields(schema, element, fields, acc) ==
    IF fields = <<>> THEN acc
    ELSE ReadFields(schema, element, Tail(fields), ReadField(schema, element, Head(fields), acc))

\* Serializable.from_node of a record type on an element: the node read, or
\* the failure
Serializable_from_node(cls, element) ==
    LET schema == Schemas[cls]
        read == ReadFields(schema, element, schema.fields,
                           [ret |-> "None", values |-> AllOf(DOMAIN schema.descriptors, None)])
    IN  IF read.ret # "None" THEN [ret |-> read.ret, node |-> None]
        ELSE [ret |-> "None", node |-> Some([cls |-> cls, values |-> read.values])]

\* the constructors, on the arguments the model gives them; the other
\* arguments are None
ProcessingType(Type, Parameters) ==
    [cls |-> "ProcessingType",
     values |-> [Type |-> Type, Applied |-> None, Parameters |-> Parameters]]

MonochromeDisplayRemapType(RemapType, RemapParameters) ==
    [cls |-> "MonochromeDisplayRemapType",
     values |-> [RemapType |-> RemapType, RemapParameters |-> RemapParameters]]

ProductDisplayType(PixelType, DisplayExtensions) ==
    [cls |-> "ProductDisplayType",
     values |-> [PixelType |-> PixelType, RemapInformation |-> None,
                 MagnificationMethod |-> None, DecimationMethod |-> None,
                 DRAHistogramOverrides |-> None, MonitorCompensationApplied |-> None,
                 DisplayExtensions |-> DisplayExtensions]]

\* the attribute of a record type that is a parameter collection
ParametersOf(cls) == CHOOSE name \in DOMAIN Schemas[cls].descriptors :
                         Schemas[cls].descriptors[name] = "params"

HasParameters(cls) == \E name \in DOMAIN Schemas[cls].descriptors :
                          Schemas[cls].descriptors[name] = "params"

---------------------------------------------------------------------------
(* The nodes with parameter collections and their XML round trip *)

ParamKeys == {"A", "B"}
ParamValues == {"1", "2"}
ParamPairs == {<<key, value>> : key \in ParamKeys, value \in ParamValues}

\* the collections a constructor is given: None, or a dict, whose keys differ
ParamDicts ==
    {None} \cup {Some(q) : q \in {d \in SeqsUpTo(ParamPairs, MaxParams) :
                                      Cardinality(Names(Keys(d))) = Len(d)}}

ParameterClasses == {"ProcessingType", "MonochromeDisplayRemapType", "ProductDisplayType"}

\* the nodes constructed
ProductNodes ==
    {ProcessingType(Some("FILTER"), d) : d \in ParamDicts}
    \cup {MonochromeDisplayRemapType(Some("LINLOG"), d) : d \in ParamDicts}
    \cup {ProductDisplayType(Some("MONO8I"), d) : d \in ParamDicts}
    \cup {[cls |-> "ImageFormationType",
           values |-> ImageFormationType(Merge([TStartProc |-> t1, TEndProc |-> t2,
                                                TxFrequencyProc |-> None],
                                               OtherFieldsAbsent))] :
              t1 \in Opt(Times), t2 \in Opt(Times)}

\* the elements read: the children of a parameter collection of the record
\* type, of any names, after the child of its first field
ProductElements(cls) ==
    {<< [tag |-> Schemas[cls].fields[1], name |-> None, text |-> "X", format |-> ""] >>
        \o ParameterChildren(Schemas[cls].collections[ParametersOf(cls)], q) :
            q \in SeqsUpTo(ParamPairs, MaxParams)}

Construct ==
    /\ product = ProductIdle
    /\ \E node \in ProductNodes : product' = [product EXCEPT !.node = Some(node)]
    /\ UNCHANGED <<self, calls, lut_node, remap, luts, tre>>

\* node.<collection>[key] = value
SetParameter ==
    /\ product.node # None /\ product.element = None
    /\ HasParameters(Val(product.node).cls)
    /\ product.n < MaxParams
    /\ \E pair \in ParamPairs :
          LET node == Val(product.node)
              name == ParametersOf(node.cls)
              stored == node.values[name]
              put == ParametersCollection_setitem(
                         IF stored = None THEN <<>> ELSE Val(stored), pair[1], pair[2])
          IN  product' = [product EXCEPT
                  !.node = Some([node EXCEPT !.values[name] =
                                     IF stored = None /\ put.ret # "None" THEN None
                                     ELSE Some(put.params)]),
                  !.last = Some([key |-> pair[1], value |-> pair[2], pre |-> stored,
                                 ret |-> put.ret]),
                  !.n = @ + 1]
    /\ UNCHANGED <<self, calls, lut_node, remap, luts, tre>>

\* to_node of the node, and from_node of its class on what was written
RoundTrip ==
    /\ product.node # None /\ product.element = None
    /\ LET node == Val(product.node)
           element == Serializable_to_node(node)
       IN  product' = [product EXCEPT !.element = Some(element),
                                      !.from = Some(node.cls),
                                      !.back = Some(Serializable_from_node(node.cls, element))]
    /\ UNCHANGED <<self, calls, lut_node, remap, luts, tre>>

\* from_node of a record type on an element
FromNode ==
    /\ product = ProductIdle
    /\ \E cls \in ParameterClasses : \E element \in ProductElements(cls) :
          product' = [product EXCEPT !.element = Some(element),
                                     !.from = Some(cls),
                                     !.back = Some(Serializable_from_node(cls, element))]
    /\ UNCHANGED <<self, calls, lut_node, remap, luts, tre>>

InitXML ==
    /\ self = ImageFormationType(Merge([TStartProc |-> None, TEndProc |-> None,
                                        TxFrequencyProc |-> None], OtherFieldsAbsent))
    /\ calls = <<>>
    /\ lut_node = None
    /\ remap = ColorDisplayRemapType_from_node(None)
    /\ luts = LutsIdle
    /\ tre = TreIdle
    /\ product = ProductIdle

NextXML ==
    \/ Construct
    \/ SetParameter
    \/ RoundTrip
    \/ FromNode

SpecXML == InitXML /\ [][NextXML]_vars

---------------------------------------------------------------------------
(* CSCCGAType: the fields added by __init__, each of a name, a type ('s' a
   string, 'd' an integer) and a length in bytes.  The binary codec of
   TREElement is modelled from the specification (4.4); a buffer is a
   sequence of characters. *)

CSCCGAType_fields_swapped ==
    << [name |-> "CCG_SOURCE", typ |-> "s", leng |-> 18],
       [name |-> "REG_SENSOR", typ |-> "s", leng |-> 6],
       [name |-> "ORIGIN_LINE", typ |-> "d", leng |-> 5],
       [name |-> "ORIGIN_SAMPLE", typ |-> "d", leng |-> 7],
       [name |-> "AS_CELL_SIZE", typ |-> "d", leng |-> 7],
       [name |-> "CS_CELL_SIZE", typ |-> "d", leng |-> 5],
       [name |-> "CCG_MAX_LINE", typ |-> "d", leng |-> 7],
       [name |-> "CCG_MAX_SAMPLE", typ |-> "d", leng |-> 5] >>

CSCCGAType_fields ==
    << [name |-> "CCG_SOURCE", typ |-> "s", leng |-> 18],
       [name |-> "REG_SENSOR", typ |-> "s", leng |-> 6],
       [name |-> "ORIGIN_LINE", typ |-> "d", leng |-> 7],
       [name |-> "ORIGIN_SAMPLE", typ |-> "d", leng |-> 5],
       [name |-> "AS_CELL_SIZE", typ |-> "d", leng |-> 7],
       [name |-> "CS_CELL_SIZE", typ |-> "d", leng |-> 5],
       [name |-> "CCG_MAX_LINE", typ |-> "d", leng |-> 7],
       [name |-> "CCG_MAX_SAMPLE", typ |-> "d", leng |-> 5] >>

\* the offset of field k of a layout: the lengths of the fields before it
RECURSIVE OffsetOf(_, _)
OffsetOf(layout, k) == IF k <= 1 THEN 0 ELSE OffsetOf(layout, k - 1) + layout[k - 1].leng

\* the total width of a layout
TotalWidth(layout) == OffsetOf(layout, Len(layout) + 1)

Repeat(c, n) == [k \in 1..n |-> c]

\* a string in its field: left-justified and space-padded, or truncated
StringField(text, leng) ==
    IF Len(text) >= leng THEN SubSeq(text, 1, leng)
    ELSE text \o Repeat(" ", leng - Len(text))

\* an integer in its field: right-justified and zero-padded, the sign first
IntegerField(v, leng) ==
    IF v < 0
    THEN <<"-">> \o Repeat("0", leng - 1 - Len(IntToText(-v))) \o IntToText(-v)
    ELSE Repeat("0", leng - Len(IntToText(v))) \o IntToText(v)

\* the padding of a string field taken off
RECURSIVE StripLeft(_)
StripLeft(text) == IF text # <<>> /\ Head(text) = " " THEN StripLeft(Tail(text)) ELSE text

RECURSIVE StripRight(_)
StripRight(text) ==
    IF text # <<>> /\ text[Len(text)] = " " THEN StripRight(SubSeq(text, 1, Len(text) - 1))
    ELSE text

Strip(text) == StripRight(StripLeft(text))

\* the integer of a field: digits, after a sign or not
IsIntegerField(text) ==
    IF text # <<>> /\ Head(text) = "-" THEN IsIntLiteral(Tail(text)) ELSE IsIntLiteral(text)

IntegerOf(text) ==
    IF Head(text) = "-" THEN 0 - IntValue(Tail(text)) ELSE IntValue(text)

\* TREElement.to_bytes: the fields of the node in the order of the layout
RECURSIVE TREElement_to_bytes(_, _)
TREElement_to_bytes(node, layout) ==
    IF layout = <<>> THEN <<>>
    ELSE LET field == Head(layout)
         IN  (IF field.typ = "s" THEN StringField(node[field.name], field.leng)
              ELSE IntegerField(node[field.name], field.leng))
             \o TREElement_to_bytes(node, Tail(layout))

\* value[start:start + leng]
Slice(value, start, leng) ==
    SubSeq(value, start + 1, IF start + leng < Len(value) THEN start + leng ELSE Len(value))

\* the value of field k of the layout read from a buffer
FieldValue(value, layout, k) ==
    LET bytes == Slice(value, OffsetOf(layout, k), layout[k].leng)
    IN  IF layout[k].typ = "s" THEN Strip(bytes) ELSE IntegerOf(bytes)

\* the integer fields of the buffer hold integers
Coercible(value, layout) ==
    \A k \in 1..Len(layout) :
        layout[k].typ = "d" =>
            IsIntegerField(Slice(value, OffsetOf(layout, k), layout[k].leng))

\* the fields of the layout read from a buffer, under their names
FieldsOf(value, layout) ==
    [name \in {layout[k].name : k \in 1..Len(layout)} |->
        FieldValue(value, layout, CHOOSE k \in 1..Len(layout) : layout[k].name = name)]

\* CSCCGAType(value) of a buffer, without the test of its length: the string
\* fields are read from the bytes there are
CSCCGAType_partial(value) ==
    IF ~Coercible(value, CSCCGAType_fields) THEN [ret |-> "TypeError", node |-> None]
    ELSE [ret |-> "None", node |-> Some(FieldsOf(value, CSCCGAType_fields))]

\* CSCCGAType(value) of a buffer: the fields are added in order, each read at
\* the offset the fields before it leave; a buffer shorter than the fields
\* together is refused, the bytes after them are not read
CSCCGAType(value) ==
    IF Len(value) < TotalWidth(CSCCGAType_fields)
    THEN [ret |-> "TruncatedRecord", node |-> None]
    ELSE IF ~Coercible(value, CSCCGAType_fields) THEN [ret |-> "TypeError", node |-> None]
    ELSE [ret |-> "None", node |-> Some(FieldsOf(value, CSCCGAType_fields))]

\* the values the fields of a record are set to
SourceValues ==
    { <<>>, <<"A", "B">>, <<"A", " ", "B">>, <<"A", "B", " ">>, <<" ", "A", "B">>,
      Repeat("Z", 18), Repeat("Z", 19) }
SensorValues == { <<"S", "1">>, Repeat("R", 6) }
LineValues == { 0, 12, 9999999, -5 }
SampleValues == { 0, 99999 }

TreNodes ==
    { [CCG_SOURCE |-> source, REG_SENSOR |-> sensor, ORIGIN_LINE |-> line,
       ORIGIN_SAMPLE |-> sample, AS_CELL_SIZE |-> line, CS_CELL_SIZE |-> sample,
       CCG_MAX_LINE |-> 12, CCG_MAX_SAMPLE |-> sample] :
          source \in SourceValues, sensor \in SensorValues, line \in LineValues,
          sample \in SampleValues }

\* the bytes after a record in its container
Trailing == { <<>>, <<"X">>, <<"1", " ">> }

\* the fields of a record are set
SetFields ==
    /\ tre = TreIdle
    /\ \E node \in TreNodes : tre' = [tre EXCEPT !.node = Some(node)]
    /\ UNCHANGED <<self, calls, lut_node, remap, luts, product>>

\* to_bytes of the record
ToBytes ==
    /\ tre.node # None /\ tre.bytes = None
    /\ tre' = [tre EXCEPT !.bytes = Some(TREElement_to_bytes(Val(tre.node), CSCCGAType_fields))]
    /\ UNCHANGED <<self, calls, lut_node, remap, luts, product>>

\* CSCCGAType(value) of the bytes written, of a part of them, or of them and
\* the bytes after them
FromBytes ==
    /\ tre.bytes # None /\ tre.value = None
    /\ \E cut \in 0..Len(Val(tre.bytes)) : \E more \in Trailing :
          /\ cut < Len(Val(tre.bytes)) => more = <<>>
          /\ LET value == SubSeq(Val(tre.bytes), 1, cut) \o more
             IN  tre' = [tre EXCEPT !.value = Some(value), !.back = Some(CSCCGAType(value))]
    /\ UNCHANGED <<self, calls, lut_node, remap, luts, product>>

InitTRE ==
    /\ self = ImageFormationType(Merge([TStartProc |-> None, TEndProc |-> None,
                                        TxFrequencyProc |-> None], OtherFieldsAbsent))
    /\ calls = <<>>
    /\ lut_node = None
    /\ remap = ColorDisplayRemapType_from_node(None)
    /\ luts = LutsIdle
    /\ tre = TreIdle
    /\ product = ProductIdle

NextTRE ==
    \/ SetFields
    \/ ToBytes
    \/ FromBytes

SpecTRE == InitTRE /\ [][NextTRE]_vars

---------------------------------------------------------------------------
(* Properties of the ImageFormationType operations *)

\* the node after call i
Post(i) == IF i = Len(calls) THEN self ELSE calls[i + 1].pre

IsCall(i, op) == i \in 1..Len(calls) /\ calls[i].op = op

SiblingTx(RadarCollection) == Val(Val(RadarCollection).TxFrequency)

\* a derive call whose sibling has both bounds
FullDerive(i) == IsCall(i, "derive") /\ HasTxFrequency(calls[i].arg)

\* C1: after _derive_tx_frequency_proc with a sibling whose Min and Max are
\* present, MinProc and MaxProc still hold the values they held before the
\* call, each where it was present.
C1_NeverOverwrites ==
    \A i \in 1..Len(calls) :
        (FullDerive(i) /\ calls[i].pre.TxFrequencyProc # None) =>
            LET before == Val(calls[i].pre.TxFrequencyProc)
                after == Post(i).TxFrequencyProc
            IN  /\ after # None
                /\ before.MinProc # None => Val(after).MinProc = before.MinProc
                /\ before.MaxProc # None => Val(after).MaxProc = before.MaxProc

\* C2: with TxFrequencyProc absent and the sibling's Min and Max present,
\* _derive_tx_frequency_proc completes without an error and leaves
\* TxFrequencyProc present with MinProc = Min and MaxProc = Max.
C2_ConstructsAbsentTarget ==
    \A i \in 1..Len(calls) :
        (FullDerive(i) /\ calls[i].pre.TxFrequencyProc = None) =>
            /\ calls[i].ret = "None"
            /\ Post(i).TxFrequencyProc =
                   Some([MinProc |-> SiblingTx(calls[i].arg).Min,
                         MaxProc |-> SiblingTx(calls[i].arg).Max])

\* C3: with TxFrequencyProc present and the sibling's Min and Max present,
\* after _derive_tx_frequency_proc an absent MinProc is the sibling's Min and
\* an absent MaxProc is the sibling's Max, also when both were absent.
C3_FillsAbsentSubFields ==
    \A i \in 1..Len(calls) :
        (FullDerive(i) /\ calls[i].pre.TxFrequencyProc # None) =>
            LET before == Val(calls[i].pre.TxFrequencyProc)
                after == Post(i).TxFrequencyProc
            IN  /\ calls[i].ret = "None"
                /\ after # None
                /\ before.MinProc = None => Val(after).MinProc = SiblingTx(calls[i].arg).Min
                /\ before.MaxProc = None => Val(after).MaxProc = SiblingTx(calls[i].arg).Max

\* a derive call that filled both bounds of a present, empty TxFrequencyProc
C3_Witness ==
    /\ FullDerive(Len(calls))
    /\ calls[Len(calls)].pre.TxFrequencyProc = Some([MinProc |-> None, MaxProc |-> None])
    /\ self.TxFrequencyProc = Some([MinProc |-> Some(2), MaxProc |-> Some(10)])

\* C4: for every node and every sibling, absent, partial or full, a second
\* _derive_tx_frequency_proc with the same sibling leaves the node as the
\* first one left it.
C4_DeriveIdempotent ==
    \A i \in 1..Len(calls) :
        IsCall(i, "derive") =>
            ImageFormationType_derive_tx_frequency_proc(Post(i), calls[i].arg).self = Post(i)

\* two derive calls in a row with the same full sibling, the first of which
\* changed the node and the second of which did not
C4_Witness ==
    /\ Len(calls) >= 2
    /\ FullDerive(Len(calls) - 1)
    /\ IsCall(Len(calls), "derive")
    /\ calls[Len(calls)].arg = calls[Len(calls) - 1].arg
    /\ calls[Len(calls) - 1].pre # calls[Len(calls)].pre
    /\ calls[Len(calls)].pre = self

\* two shifts in a row, the calls i and i + 1
TwoShifts(i) == IsCall(i, "shift") /\ IsCall(i + 1, "shift")

\* C5 as stated: a shift by a followed by a shift by b leaves the same MinProc
\* and MaxProc as one shift of the original node by a + b.
C5_ShiftLinear ==
    \A i \in 1..Len(calls) :
        TwoShifts(i) =>
            Post(i + 1).TxFrequencyProc =
                ImageFormationType_apply_reference_frequency(
                    calls[i].pre, FloatAdd(calls[i].arg, calls[i + 1].arg)).self.TxFrequencyProc

\* the sums x + a, (x + a) + b, a + b and x + (a + b) are floats: no addition rounds
ExactSums(x, a, b) ==
    /\ FloatAdd(x, a) = x + a
    /\ FloatAdd(x + a, b) = x + a + b
    /\ FloatAdd(a, b) = a + b
    /\ FloatAdd(x, a + b) = x + a + b

ShiftedExactly(before, after, a, b) ==
    IF before = None THEN after = None
    ELSE ExactSums(Val(before), a, b) =>
            /\ after = Some(Val(before) + a + b)
            /\ after = Some(FloatAdd(Val(before), FloatAdd(a, b))) \* one shift by a + b

\* C5 amended: a shift by a followed by a shift by b leaves an absent
\* TxFrequencyProc, MinProc or MaxProc absent, and leaves each present one
\* whose additions are all exact at the original value plus a + b, which is
\* what one shift by a + b leaves.
C5_ShiftLinearWhenExact ==
    \A i \in 1..Len(calls) :
        TwoShifts(i) =>
            LET before == calls[i].pre.TxFrequencyProc
                after == Post(i + 1).TxFrequencyProc
                a == calls[i].arg
                b == calls[i + 1].arg
            IN  IF before = None THEN after = None
                ELSE /\ after # None
                     /\ ShiftedExactly(Val(before).MinProc, Val(after).MinProc, a, b)
                     /\ ShiftedExactly(Val(before).MaxProc, Val(after).MaxProc, a, b)

\* two shifts in a row, by offsets that do not cancel, of a node whose MaxProc
\* they moved without rounding
C5_Witness ==
    /\ TwoShifts(Len(calls) - 1)
    /\ calls[Len(calls) - 1].pre.TxFrequencyProc # None
    /\ Val(calls[Len(calls) - 1].pre.TxFrequencyProc).MaxProc # None
    /\ LET x == Val(Val(calls[Len(calls) - 1].pre.TxFrequencyProc).MaxProc)
           a == calls[Len(calls) - 1].arg
           b == calls[Len(calls)].arg
       IN  /\ ExactSums(x, a, b)
           /\ a + b # 0
           /\ Val(self.TxFrequencyProc).MaxProc = Some(x + a + b)

\* the fields of the node other than TxFrequencyProc
OtherNames == {ImageFormationType_fields[k] : k \in 1..Len(ImageFormationType_fields)}
                  \ {"TxFrequencyProc"}

\* C6: after _apply_reference_frequency an absent TxFrequencyProc is absent,
\* an absent MinProc or MaxProc is absent, and every other field of the node
\* holds what it held before.
C6_ShiftCreatesNothing ==
    \A i \in 1..Len(calls) :
        IsCall(i, "shift") =>
            LET before == calls[i].pre
                after == Post(i)
            IN  /\ before.TxFrequencyProc = None => after.TxFrequencyProc = None
                /\ before.TxFrequencyProc # None =>
                      /\ after.TxFrequencyProc # None
                      /\ Val(before.TxFrequencyProc).MinProc = None
                            => Val(after.TxFrequencyProc).MinProc = None
                      /\ Val(before.TxFrequencyProc).MaxProc = None
                            => Val(after.TxFrequencyProc).MaxProc = None
                /\ \A name \in OtherNames : after[name] = before[name]

\* a shift of a node whose MinProc is absent and whose MaxProc it moved, all
\* other fields being present
C6_Witness ==
    /\ IsCall(Len(calls), "shift")
    /\ calls[Len(calls)].pre.TxFrequencyProc # None
    /\ Val(calls[Len(calls)].pre.TxFrequencyProc).MinProc = None
    /\ Val(calls[Len(calls)].pre.TxFrequencyProc).MaxProc = Some(8)
    /\ Val(self.TxFrequencyProc) = [MinProc |-> None, MaxProc |-> Some(10)]
    /\ self.TStartProc = Some(3)
    /\ self.RcvChanProc # None

\* the cross-field errors a validity check logged
CrossFieldErrors(log) == {k \in 1..Len(log) : log[k][1] = "cross"}
MissingErrors(log) == {k \in 1..Len(log) : log[k][1] = "missing"}

\* lower and upper are both present and upper < lower
Violated(lower, upper) == lower # None /\ upper # None /\ Val(upper) < Val(lower)

\* the bounds a validity check compares: those of the node (valid) or of its
\* TxFrequencyProc (txvalid)
Lower(i) == IF calls[i].op = "valid" THEN calls[i].pre.TStartProc
            ELSE Val(calls[i].pre.TxFrequencyProc).MinProc
Upper(i) == IF calls[i].op = "valid" THEN calls[i].pre.TEndProc
            ELSE Val(calls[i].pre.TxFrequencyProc).MaxProc

IsValidityCheck(i) == IsCall(i, "valid") \/ IsCall(i, "txvalid")

\* C7: a validity check of an ImageFormationType logs a cross-field error if
\* and only if TStartProc and TEndProc are both present and TEndProc <
\* TStartProc, and then exactly one, of these two values; the same for a
\* TxFrequencyProcType with MinProc and MaxProc.
C7_CrossFieldExactlyWhenViolated ==
    \A i \in 1..Len(calls) :
        IsValidityCheck(i) =>
            IF Violated(Lower(i), Upper(i))
            THEN /\ Cardinality(CrossFieldErrors(calls[i].log)) = 1
                 /\ \A k \in CrossFieldErrors(calls[i].log) :
                        calls[i].log[k] = CrossField(Val(Lower(i)), Val(Upper(i)))
            ELSE CrossFieldErrors(calls[i].log) = {}

\* the check of a node with TStartProc = 5 and TEndProc = 3 logged one
\* cross-field error
C7_Witness ==
    /\ IsCall(Len(calls), "valid")
    /\ self.TStartProc = Some(5)
    /\ self.TEndProc = Some(3)
    /\ Cardinality(CrossFieldErrors(calls[Len(calls)].log)) = 1

\* the required fields of the checked record that are absent
RequiredOf(i) == IF calls[i].op = "valid" THEN ImageFormationType_required
                 ELSE TxFrequencyProcType_required
Checked(i) == IF calls[i].op = "valid" THEN calls[i].pre
              ELSE Val(calls[i].pre.TxFrequencyProc)
MissingOf(i) == {k \in 1..Len(RequiredOf(i)) : Checked(i)[RequiredOf(i)[k]] = None}

\* C8: one validity check logs an error for every absent required field and,
\* whether or not any is absent, the cross-field error of violated bounds;
\* its result is False if and only if a required field is absent or the
\* bounds are violated.
C8_ValidationComplete ==
    \A i \in 1..Len(calls) :
        IsValidityCheck(i) =>
            /\ Cardinality(MissingErrors(calls[i].log)) = Cardinality(MissingOf(i))
            /\ \A k \in MissingOf(i) :
                   \E j \in MissingErrors(calls[i].log) :
                       calls[i].log[j] = <<"missing", RequiredOf(i)[k]>>
            /\ Violated(Lower(i), Upper(i)) <=> CrossFieldErrors(calls[i].log) # {}
            /\ calls[i].ret = (MissingOf(i) = {} /\ ~Violated(Lower(i), Upper(i)))

\* the check of a node that lacks RcvChanProc and has TEndProc < TStartProc
\* logged both and returned False
C8_Witness ==
    /\ IsCall(Len(calls), "valid")
    /\ self.RcvChanProc = None
    /\ Violated(self.TStartProc, self.TEndProc)
    /\ MissingErrors(calls[Len(calls)].log) # {}
    /\ CrossFieldErrors(calls[Len(calls)].log) # {}
    /\ calls[Len(calls)].ret = FALSE

\* C9: a validity check of an ImageFormationType or a TxFrequencyProcType,
\* valid or not, leaves every field as it was and returns a result, True or
\* False.
C9_ValidationPure ==
    \A i \in 1..Len(calls) :
        IsValidityCheck(i) =>
            /\ Post(i) = calls[i].pre
            /\ calls[i].ret \in BOOLEAN

\* the check of a node with TEndProc < TStartProc returned False and the node
\* still holds both values
C9_Witness ==
    /\ IsCall(Len(calls), "valid")
    /\ calls[Len(calls)].ret = FALSE
    /\ calls[Len(calls)].pre.TStartProc = Some(5)
    /\ calls[Len(calls)].pre.TEndProc = Some(3)
    /\ self = calls[Len(calls)].pre

---------------------------------------------------------------------------
(* Properties of ColorDisplayRemapType.from_node *)

\* a row of three numbers, and the numbers
WellFormed(entry) ==
    LET tokens == SplitComma(entry, <<>>)
    IN  Len(tokens) = 3 /\ \A k \in 1..3 : IsIntLiteral(tokens[k])
RowOf(entry) == [k \in 1..3 |-> IntValue(SplitComma(entry, <<>>)[k])]

\* a row with another number of tokens than three
WrongTokenCount(entry) == Len(SplitComma(entry, <<>>)) # 3

RECURSIVE WellFormedRows(_)
WellFormedRows(entries) ==
    IF entries = <<>> THEN <<>>
    ELSE (IF WellFormed(Head(entries)) THEN <<RowOf(Head(entries))>> ELSE <<>>)
         \o WellFormedRows(Tail(entries))

RECURSIVE MalformedRows(_)
MalformedRows(entries) ==
    IF entries = <<>> THEN <<>>
    ELSE (IF WellFormed(Head(entries)) THEN <<>> ELSE <<Head(entries)>>)
         \o MalformedRows(Tail(entries))

EntriesOf(node) == SplitWhitespace(Val(node).text, <<>>)

\* C10: from_node on a RemapLUT text whose rows are well-formed or have a
\* wrong token count returns a table of the well-formed rows, in document
\* order and no more, and records each malformed row: "1,2,3 4,5" gives the
\* one row (1,2,3).
C10_PartialSuccessParsing ==
    (/\ lut_node # None
     /\ \A k \in 1..Len(EntriesOf(lut_node)) :
            WellFormed(EntriesOf(lut_node)[k]) \/ WrongTokenCount(EntriesOf(lut_node)[k])
     /\ \E k \in 1..Len(EntriesOf(lut_node)) : WellFormed(EntriesOf(lut_node)[k]))
    => /\ remap.ret = "None"
       /\ remap.RemapLUT # None
       /\ Val(remap.RemapLUT).data = WellFormedRows(EntriesOf(lut_node))
       /\ remap.log = MalformedRows(EntriesOf(lut_node))

\* an entry of a monochrome table that is a number
RECURSIVE NumericEntries(_)
NumericEntries(entries) ==
    IF entries = <<>> THEN <<>>
    ELSE (IF IsIntLiteral(Head(entries)) THEN <<IntValue(Head(entries))>> ELSE <<>>)
         \o NumericEntries(Tail(entries))

\* an entry with a token that is no number
NonNumeric(entry) ==
    \E k \in 1..Len(SplitComma(entry, <<>>)) : ~IsIntLiteral(SplitComma(entry, <<>>)[k])

\* the text has an entry with a token that is no number, or more good entries
\* than the size attribute announces
HasBadColorEntry(node) ==
    \/ \E k \in 1..Len(EntriesOf(node)) : NonNumeric(EntriesOf(node)[k])
    \/ Len(WellFormedRows(EntriesOf(node))) > IntValue(Val(node).size)

HasBadMonoEntry(node) ==
    \/ \E k \in 1..Len(EntriesOf(node)) : ~IsIntLiteral(EntriesOf(node)[k])
    \/ Len(NumericEntries(EntriesOf(node))) > IntValue(Val(node).size)

\* the first n entries of a sequence
Prefix(q, n) == SubSeq(q, 1, IF n < Len(q) THEN n ELSE Len(q))

\* C11: from_node of ColorDisplayRemapType and of MonochromeDisplayRemapType,
\* given a RemapLUT text with an entry that is no number or with more entries
\* than its size attribute announces, raises nothing and returns a node that
\* keeps the well-formed entries.
C11_BadEntryNeverAborts ==
    /\ (lut_node # None /\ HasBadColorEntry(lut_node)) =>
          /\ remap.ret = "None"
          /\ remap.RemapLUT # None
          /\ Prefix(Val(remap.RemapLUT).data, Len(WellFormedRows(EntriesOf(lut_node))))
                = Prefix(WellFormedRows(EntriesOf(lut_node)), IntValue(Val(lut_node).size))
    /\ (luts.mono_node # None /\ HasBadMonoEntry(luts.mono_node)) =>
          /\ luts.mono_remap.ret = "None"
          /\ luts.mono_remap.RemapLUT # None
          /\ Prefix(Val(luts.mono_remap.RemapLUT).data,
                    Len(NumericEntries(EntriesOf(luts.mono_node))))
                = Prefix(NumericEntries(EntriesOf(luts.mono_node)),
                         IntValue(Val(luts.mono_node).size))

\* the tables C12 speaks of: N rows of three integers, of a good element type
ValidColorTable(t) ==
    /\ t.kind = "ndarray" /\ t.dtype \in {"uint8", "uint16"}
    /\ Len(t.shape) = 2 /\ t.shape[2] = 3

\* C12: writing a ColorDisplayRemapType whose table is absent or a valid N x 3
\* table and parsing what was written succeeds, and gives no table for no
\* table and else a table of the same rows in the same order
C12_ColorRoundTrip ==
    (luts.written # None
        /\ (Val(luts.written).original = None
              \/ ValidColorTable(Val(Val(luts.written).original)))) =>
        LET w == Val(luts.written)
        IN  /\ w.back.ret = "None"
            /\ w.original = None => w.back.RemapLUT = None
            /\ w.original # None =>
                   /\ w.back.RemapLUT # None
                   /\ Val(w.back.RemapLUT).shape = Val(w.original).shape
                   /\ Val(w.back.RemapLUT).data = Val(w.original).data

\* C15: whatever was assigned to the RemapLUT of a ColorDisplayRemapType, the
\* stored table is absent or two-dimensional of three columns and of element
\* type uint8 or uint16
C15_StoredColorTableShape ==
    luts.color = None \/ ValidColorTable(Val(luts.color))

\* a list or tuple assigned is taken as the uint8 array of its entries
AsArray(v) == IF v.kind = "list"
              THEN [kind |-> "ndarray", dtype |-> "uint8", shape |-> v.shape, data |-> v.data]
              ELSE v

\* the tables a MonochromeDisplayRemapType takes: one-dimensional, uint8
ValidMonoTable(t) == t.kind = "ndarray" /\ t.dtype = "uint8" /\ Len(t.shape) = 1

\* the last assignment was of a value its class has to reject
BadAssignment ==
    /\ luts.assigned # None
    /\ Val(luts.assigned).value # None
    /\ IF Val(luts.assigned).cls = "Color"
       THEN ~ValidColorTable(AsArray(Val(Val(luts.assigned).value)))
       ELSE ~ValidMonoTable(AsArray(Val(Val(luts.assigned).value)))

\* the table stored now in the object of the last assignment
StoredOf(cls) == IF cls = "Color" THEN luts.color ELSE luts.mono

\* C19: an assignment of a value that is no table of the class raises
\* ValueError and leaves the table stored before in place
C19_RejectedAssignment ==
    BadAssignment =>
        /\ Val(luts.assigned).ret = "ValueError"
        /\ StoredOf(Val(luts.assigned).cls) = Val(luts.assigned).pre

\* a ProductDisplayType with a DisplayExtensions of some entries was written and read back
WroteDisplayExtensions ==
    /\ product.node # None /\ product.back # None
    /\ Val(product.node).cls = "ProductDisplayType"
    /\ Val(product.node).values.DisplayExtensions # None
    /\ Val(Val(product.node).values.DisplayExtensions) # <<>>

\* C13: a ProductDisplayType with a DisplayExtensions of some entries is
\* written with one DisplayExtension child per key, in insertion order, of
\* that name and text, and what is read back has the DisplayExtensions,
\* the PixelType and the other fields of the original
C13_ProductDisplayRoundTrip ==
    WroteDisplayExtensions =>
        LET node == Val(product.node)
            back == Val(product.back)
        IN  /\ ChildrenOf(Val(product.element), "DisplayExtension")
                  = ParameterChildren("DisplayExtension", Val(node.values.DisplayExtensions))
            /\ back.ret = "None"
            /\ Val(back.node).values = node.values

\* C14: the names of _required, the keys of _collections_tags and the names
\* of the descriptors of every record type are names of its _fields, and so
\* are the attributes of a node constructed of it
C14_SchemaWellFormed ==
    \A cls \in DOMAIN Schemas :
        /\ Names(Schemas[cls].required) \subseteq Names(Schemas[cls].fields)
        /\ DOMAIN Schemas[cls].collections \subseteq Names(Schemas[cls].fields)
        /\ DOMAIN Schemas[cls].descriptors \subseteq Names(Schemas[cls].fields)
        /\ (product.node # None /\ Val(product.node).cls = cls) =>
               DOMAIN Val(product.node).values \subseteq Names(Schemas[cls].fields)

\* the element read has two children of the parameter collection of a name
DuplicateNames(cls, element) ==
    LET children == ChildrenOf(element, Schemas[cls].collections[ParametersOf(cls)])
    IN  \E i, j \in 1..Len(children) : i < j /\ children[i].name = children[j].name

\* C18: an insertion of a key that is there, and the reading of an element
\* with two entries of a name, fail with the duplicate-key error and leave
\* the stored value as it was; the keys of a collection differ and are in
\* the order of their insertion
C18_NoDuplicateKeys ==
    /\ (product.node # None /\ HasParameters(Val(product.node).cls)) =>
           LET stored == Val(product.node).values[ParametersOf(Val(product.node).cls)]
           IN  /\ stored # None =>
                      Cardinality(Names(Keys(Val(stored)))) = Len(Val(stored))
               /\ product.last # None =>
                      LET last == Val(product.last)
                          pre == IF last.pre = None THEN <<>> ELSE Val(last.pre)
                      IN  IF last.key \in Names(Keys(pre))
                          THEN last.ret = "DuplicateKey" /\ stored = last.pre
                          ELSE last.ret = "None"
                               /\ Val(stored) = Append(pre, <<last.key, last.value>>)
    /\ (product.node = None /\ product.back # None
            /\ DuplicateNames(Val(product.from), Val(product.element))) =>
           Val(product.back).ret = "DuplicateKey"

\* C20: the keys of _numeric_format of every record type are names of its
\* _fields, and an ImageFormationType is written with both TStartProc and
\* TEndProc in the format 0.16G
C20_NumericFormatNamesFields ==
    /\ \A cls \in DOMAIN Schemas :
           DOMAIN Schemas[cls].numeric_format \subseteq Names(Schemas[cls].fields)
    /\ (product.element # None /\ Val(product.from) = "ImageFormationType") =>
           \A k \in 1..Len(Val(product.element)) :
               Val(product.element)[k].tag \in {"TStartProc", "TEndProc"} =>
                   Val(product.element)[k].format = "0.16G"

\* the layout C16 names: the fields in order, the type and the width of each
NamedLayout ==
    << <<"CCG_SOURCE", "s", 18>>, <<"REG_SENSOR", "s", 6>>, <<"ORIGIN_LINE", "d", 7>>,
       <<"ORIGIN_SAMPLE", "d", 5>>, <<"AS_CELL_SIZE", "d", 7>>, <<"CS_CELL_SIZE", "d", 5>>,
       <<"CCG_MAX_LINE", "d", 7>>, <<"CCG_MAX_SAMPLE", "d", 5>> >>

\* the first byte of each field when the fields follow one another
NamedOffsets == <<0, 18, 24, 31, 36, 43, 48, 55>>

\* the fields of CSCCGAType are those named, and the bytes written hold each
\* field at its offset, 60 bytes in all
LaidOutAsNamed ==
    /\ [k \in 1..Len(CSCCGAType_fields) |->
           <<CSCCGAType_fields[k].name, CSCCGAType_fields[k].typ, CSCCGAType_fields[k].leng>>]
          = NamedLayout
    /\ tre.bytes # None =>
           /\ Len(Val(tre.bytes)) = 60
           /\ \A k \in 1..Len(NamedLayout) :
                  Slice(Val(tre.bytes), NamedOffsets[k], NamedLayout[k][3])
                    = IF NamedLayout[k][2] = "s"
                      THEN StringField(Val(tre.node)[NamedLayout[k][1]], NamedLayout[k][3])
                      ELSE IntegerField(Val(tre.node)[NamedLayout[k][1]], NamedLayout[k][3])

\* the value of a field fits its width
Fits(v, typ, leng) ==
    IF typ = "s" THEN Len(v) <= leng
    ELSE Len(IntToText(Abs(v))) + (IF v < 0 THEN 1 ELSE 0) <= leng

AllFit(node) ==
    \A k \in 1..Len(NamedLayout) :
        Fits(node[NamedLayout[k][1]], NamedLayout[k][2], NamedLayout[k][3])

\* no string of the node begins or ends with a space
NoOuterSpaces(node) ==
    \A k \in 1..Len(NamedLayout) :
        NamedLayout[k][2] = "s" => Strip(node[NamedLayout[k][1]]) = node[NamedLayout[k][1]]

\* the bytes written were read back as they are
ReadBack == tre.back # None /\ tre.value = tre.bytes

====
